---------------------------- MODULE Spec2Model ----------------------------
(***************************************************************************)
(* ExprSolver: an arithmetic expression tree (src/src/ast.hxx,             *)
(* src/main.cxx) and the static variable table its Identifier nodes read.  *)
(*                                                                         *)
(* A double is modelled as a sign-magnitude rational [k, s, n, d]: k is    *)
(* "fin" (s * n / d in lowest terms, so +0 and -0 are distinct), "inf"     *)
(* (s * infinity) or "nan".  The magnitudes reached within the bounds are  *)
(* small dyadic rationals, which binary64 holds exactly.  "irr" marks a    *)
(* std::pow result the rationals cannot hold (positive base, fractional    *)
(* exponent); evaluate() is not applied to trees that produce one.         *)
(***************************************************************************)
EXTENDS Integers, Sequences, FiniteSets

(***************************************************************************)
(* Bounds of the model.                                                    *)
(***************************************************************************)
MaxNodes == 5
MaxHistory == 2
MaxCalls == 2

\* the names and values setVariable is called with, and the literals and
\* names the expressions under evaluation are built from
EnvNames == {"x", "y"}
Numbers == {0, 2}
Literals == {2}
VarNames == {"x"}

(***************************************************************************)
(* binary64 values and the arithmetic of <cmath> / IEEE-754.               *)
(***************************************************************************)
RECURSIVE GCD(_, _)
GCD(a, b) == IF b = 0 THEN a ELSE GCD(b, a % b)

Fin(s, n, d) ==
    LET g == GCD(n, d)
    IN  [k |-> "fin", s |-> s, n |-> n \div g, d |-> d \div g]

Inf(s) == [k |-> "inf", s |-> s, n |-> 1, d |-> 0]
NaN == [k |-> "nan", s |-> 1, n |-> 0, d |-> 0]
Irr == [k |-> "irr", s |-> 1, n |-> 0, d |-> 0]
INFINITY == Inf(1)

FromInt(i) == IF i < 0 THEN Fin(-1, -i, 1) ELSE Fin(1, i, 1)

IsNaN(a) == a.k = "nan"
IsIrr(a) == a.k = "irr"
IsInf(a) == a.k = "inf"
IsFin(a) == a.k = "fin"
IsZero(a) == a.k = "fin" /\ a.n = 0
IsInteger(a) == a.k = "fin" /\ a.d = 1
IsOddInteger(a) == a.k = "fin" /\ a.d = 1 /\ a.n % 2 = 1
IsDouble(a) == a.k \in {"fin", "inf", "nan"}

\* operator== on double: -0.0 == 0.0, NaN equals nothing
DoubleEq(a, b) ==
    /\ ~IsNaN(a) /\ ~IsNaN(b) /\ ~IsIrr(a) /\ ~IsIrr(b)
    /\ \/ IsZero(a) /\ IsZero(b)
       \/ a = b

\* unary minus flips the sign bit
Neg(a) == IF a.k \in {"nan", "irr"} THEN a ELSE [a EXCEPT !.s = -a.s]

\* the signed numerator of a.n/a.d + b.n/b.d over the denominator a.d * b.d
SumNum(a, b) == a.s * a.n * b.d + b.s * b.n * a.d

Plus(a, b) ==
    IF IsIrr(a) \/ IsIrr(b) THEN Irr
    ELSE IF IsNaN(a) \/ IsNaN(b) THEN NaN
    ELSE IF IsInf(a) /\ IsInf(b) THEN (IF a.s = b.s THEN a ELSE NaN)
    ELSE IF IsInf(a) THEN a
    ELSE IF IsInf(b) THEN b
    ELSE LET m == SumNum(a, b)
         IN  IF m > 0 THEN Fin(1, m, a.d * b.d)
             ELSE IF m < 0 THEN Fin(-1, -m, a.d * b.d)
             ELSE \* an exact zero sum is +0 unless both addends are negative
                  Fin(IF a.s = -1 /\ b.s = -1 THEN -1 ELSE 1, 0, 1)

Minus(a, b) == Plus(a, Neg(b))

Times(a, b) ==
    IF IsIrr(a) \/ IsIrr(b) THEN Irr
    ELSE IF IsNaN(a) \/ IsNaN(b) THEN NaN
    ELSE IF (IsInf(a) /\ IsZero(b)) \/ (IsZero(a) /\ IsInf(b)) THEN NaN
    ELSE IF IsInf(a) \/ IsInf(b) THEN Inf(a.s * b.s)
    ELSE Fin(a.s * b.s, a.n * b.n, a.d * b.d)

Over(a, b) ==
    IF IsIrr(a) \/ IsIrr(b) THEN Irr
    ELSE IF IsNaN(a) \/ IsNaN(b) THEN NaN
    ELSE IF IsInf(a) /\ IsInf(b) THEN NaN
    ELSE IF IsZero(a) /\ IsZero(b) THEN NaN
    ELSE IF IsInf(a) \/ IsZero(b) THEN Inf(a.s * b.s)
    ELSE IF IsInf(b) THEN Fin(a.s * b.s, 0, 1)
    ELSE Fin(a.s * b.s, a.n * b.d, a.d * b.n)

RECURSIVE IntPow(_, _)
IntPow(b, e) == IF e = 0 THEN 1 ELSE b * IntPow(b, e - 1)

\* |a| compared with 1, for a finite or infinite a: -1, 0 or 1
CmpOne(a) ==
    IF IsInf(a) THEN 1
    ELSE IF a.n > a.d THEN 1 ELSE IF a.n < a.d THEN -1 ELSE 0

\* std::pow(x, y)
Pow(x, y) ==
    IF IsZero(y) THEN FromInt(1)
    ELSE IF x = FromInt(1) THEN FromInt(1)
    ELSE IF IsIrr(x) \/ IsIrr(y) THEN Irr
    ELSE IF IsNaN(x) \/ IsNaN(y) THEN NaN
    ELSE IF IsInf(y) THEN
        IF CmpOne(x) = 0 THEN FromInt(1)
        ELSE IF (CmpOne(x) = 1) = (y.s = 1) THEN INFINITY
        ELSE FromInt(0)
    ELSE IF IsInf(x) THEN
        IF y.s = 1
        THEN (IF x.s = -1 /\ IsOddInteger(y) THEN Inf(-1) ELSE INFINITY)
        ELSE (IF x.s = -1 /\ IsOddInteger(y) THEN Fin(-1, 0, 1) ELSE FromInt(0))
    ELSE IF IsZero(x) THEN
        IF y.s = 1
        THEN (IF IsOddInteger(y) THEN x ELSE FromInt(0))
        ELSE (IF IsOddInteger(y) THEN Inf(x.s) ELSE INFINITY)
    ELSE IF ~IsInteger(y) THEN (IF x.s = -1 THEN NaN ELSE Irr)
    ELSE LET sg == IF x.s = -1 /\ IsOddInteger(y) THEN -1 ELSE 1
             pn == IntPow(x.n, y.n)
             pd == IntPow(x.d, y.n)
         IN  IF y.s = 1 THEN Fin(sg, pn, pd) ELSE Fin(sg, pd, pn)


(***************************************************************************)
(* Nodes.  A node is a record whose kind names its concrete class; the     *)
(* abstract classes ASTNode, Unary and Binary have no instances.           *)
(***************************************************************************)
UnaryKinds == {"UnaryPlus", "UnaryMinus"}
BinaryKinds == {"Add", "Subtract", "Multiply", "Divide", "Power"}

Constant(val) == [kind |-> "Constant", value |-> val]
Identifier(id) == [kind |-> "Identifier", identifier |-> id]
Unary(kind, operand) == [kind |-> kind, operand |-> operand]
Binary(kind, left, right) == [kind |-> kind, left |-> left, right |-> right]

NoTree == [kind |-> "none"]

Leaves ==
    {Constant(FromInt(c)) : c \in Literals} \cup {Identifier(id) : id \in VarNames}

\* the trees of exactly n nodes
TreesOfSize[n \in 1..MaxNodes] ==
    IF n = 1 THEN Leaves
    ELSE {Unary(k, t) : k \in UnaryKinds, t \in TreesOfSize[n - 1]}
         \cup UNION {{Binary(k, l, r) : k \in BinaryKinds,
                                        l \in TreesOfSize[i],
                                        r \in TreesOfSize[n - 1 - i]}
                     : i \in 1..(n - 2)}

Trees == UNION {TreesOfSize[n] : n \in 1..MaxNodes}

\* the expressions the variable table is probed with
Probes ==
    {Identifier(id) : id \in EnvNames}
    \cup {Binary("Add", Identifier(id), Constant(FromInt(c))) :
             id \in EnvNames, c \in Numbers}

RECURSIVE NodeCount(_)
NodeCount(node) ==
    IF node.kind \in UnaryKinds THEN 1 + NodeCount(node.operand)
    ELSE IF node.kind \in BinaryKinds
         THEN 1 + NodeCount(node.left) + NodeCount(node.right)
         ELSE 1

(***************************************************************************)
(* Identifier::variableTable, a map from names to doubles.                 *)
(***************************************************************************)
EmptyTable == [id \in {} |-> NaN]

\* unordered_map::at: the mapped value, or std::out_of_range is thrown
at(table, id) ==
    IF id \in DOMAIN table
    THEN [thrown |-> FALSE, value |-> table[id]]
    ELSE [thrown |-> TRUE, value |-> NaN]

\* a setVariable that keeps an existing binding (unordered_map::insert)
setVariableInsert(table, id, value) ==
    [i \in DOMAIN table \cup {id} |-> IF i \in DOMAIN table THEN table[i] ELSE value]

setVariable(table, id, value) ==
    [i \in DOMAIN table \cup {id} |-> IF i = id THEN value ELSE table[i]]

clearVariables(table) == EmptyTable

(***************************************************************************)
(* evaluate().  A call's outcome holds the value returned (or that an      *)
(* exception left the call), the lines written to std::cerr in order, the  *)
(* variable table afterwards and the number of evaluate() calls made.      *)
(* ord.operator and ord.call are the order the build evaluates the two     *)
(* operands of a built-in operator and the two arguments of a call in: the *)
(* language leaves both to the compiler.                                   *)
(***************************************************************************)
UndefinedVariable(id) == [error |-> "Undefined variable", id |-> id]
DivisionByZero == [error |-> "Division by zero", id |-> ""]

Orders == [operator : {"LR", "RL"}, call : {"LR", "RL"}]

Returned(val, err, table, n) ==
    [thrown |-> FALSE, val |-> val, cerr |-> err, table |-> table, visits |-> n]

Thrown(err, table, n) ==
    [thrown |-> TRUE, val |-> NaN, cerr |-> err, table |-> table, visits |-> n]

RECURSIVE evaluate(_, _, _)

ConstantEvaluate(node, table) == Returned(node.value, <<>>, table, 1)

\* the handler catches some other exception type: out_of_range leaves the call
IdentifierEvaluateUncaught(node, table) ==
    LET r == at(table, node.identifier)
    IN  IF ~r.thrown THEN Returned(r.value, <<>>, table, 1)
        ELSE Thrown(<<>>, table, 1)

\* variableTable[identifier]: a miss inserts a zero binding and reports nothing
IdentifierEvaluateSubscript(node, table) ==
    LET r == at(table, node.identifier)
    IN  IF ~r.thrown THEN Returned(r.value, <<>>, table, 1)
        ELSE Returned(FromInt(0), <<>>,
                      setVariable(table, node.identifier, FromInt(0)), 1)

\* the handler also defines the missing variable, with a default of 1.0
IdentifierEvaluateDefining(node, table) ==
    LET r == at(table, node.identifier)
    IN  IF ~r.thrown THEN Returned(r.value, <<>>, table, 1)
        ELSE Returned(FromInt(0), <<UndefinedVariable(node.identifier)>>,
                      setVariable(table, node.identifier, FromInt(1)), 1)

IdentifierEvaluate(node, table) ==
    LET r == at(table, node.identifier)
    IN  IF ~r.thrown THEN Returned(r.value, <<>>, table, 1)
        ELSE Returned(FromInt(0), <<UndefinedVariable(node.identifier)>>, table, 1)

UnaryPlusEvaluate(node, table, ord) ==
    LET a == evaluate(node.operand, table, ord)
    IN  IF a.thrown THEN Thrown(a.cerr, a.table, a.visits + 1)
        ELSE Returned(a.val, a.cerr, a.table, a.visits + 1)

UnaryMinusEvaluate(node, table, ord) ==
    LET a == evaluate(node.operand, table, ord)
    IN  IF a.thrown THEN Thrown(a.cerr, a.table, a.visits + 1)
        ELSE Returned(Neg(a.val), a.cerr, a.table, a.visits + 1)

\* left->evaluate() and right->evaluate() as the two operands of one
\* expression: both are called, in the order the build chose; an exception
\* leaving the first call skips the second
Operands(node, table, order, ord) ==
    LET f == evaluate(IF order = "LR" THEN node.left ELSE node.right, table, ord)
        s == evaluate(IF order = "LR" THEN node.right ELSE node.left, f.table, ord)
    IN  IF f.thrown
        THEN [thrown |-> TRUE, l |-> NaN, r |-> NaN, cerr |-> f.cerr,
              table |-> f.table, visits |-> f.visits]
        ELSE [thrown |-> s.thrown,
              l |-> IF order = "LR" THEN f.val ELSE s.val,
              r |-> IF order = "LR" THEN s.val ELSE f.val,
              cerr |-> f.cerr \o s.cerr,
              table |-> s.table, visits |-> f.visits + s.visits]

AddEvaluate(node, table, ord) ==
    LET o == Operands(node, table, ord.operator, ord)
    IN  IF o.thrown THEN Thrown(o.cerr, o.table, o.visits + 1)
        ELSE Returned(Plus(o.l, o.r), o.cerr, o.table, o.visits + 1)

SubtractEvaluate(node, table, ord) ==
    LET o == Operands(node, table, ord.operator, ord)
    IN  IF o.thrown THEN Thrown(o.cerr, o.table, o.visits + 1)
        ELSE Returned(Minus(o.l, o.r), o.cerr, o.table, o.visits + 1)

MultiplyEvaluate(node, table, ord) ==
    LET o == Operands(node, table, ord.operator, ord)
    IN  IF o.thrown THEN Thrown(o.cerr, o.table, o.visits + 1)
        ELSE Returned(Times(o.l, o.r), o.cerr, o.table, o.visits + 1)

\* a Divide that throws on a zero divisor instead of returning INFINITY
DivideEvaluateThrowing(node, table, ord) ==
    LET c == evaluate(node.right, table, ord)
        o == Operands(node, c.table, ord.operator, ord)
    IN  IF c.thrown \/ DoubleEq(c.val, FromInt(0))
        THEN Thrown(c.cerr, c.table, c.visits + 1)
        ELSE IF o.thrown
        THEN Thrown(c.cerr \o o.cerr, o.table, c.visits + o.visits + 1)
        ELSE Returned(Over(o.l, o.r), c.cerr \o o.cerr, o.table,
                      c.visits + o.visits + 1)

\* a Divide without the test of the divisor
DivideEvaluateUnchecked(node, table, ord) ==
    LET o == Operands(node, table, ord.operator, ord)
    IN  IF o.thrown THEN Thrown(o.cerr, o.table, o.visits + 1)
        ELSE Returned(Over(o.l, o.r), o.cerr, o.table, o.visits + 1)

DivideEvaluate(node, table, ord) ==
    LET c == evaluate(node.right, table, ord)
        o == Operands(node, c.table, ord.operator, ord)
    IN  IF c.thrown THEN Thrown(c.cerr, c.table, c.visits + 1)
        ELSE IF DoubleEq(c.val, FromInt(0))
        THEN Returned(INFINITY, c.cerr \o <<DivisionByZero>>, c.table, c.visits + 1)
        ELSE IF o.thrown
        THEN Thrown(c.cerr \o o.cerr, o.table, c.visits + o.visits + 1)
        ELSE Returned(Over(o.l, o.r), c.cerr \o o.cerr, o.table,
                      c.visits + o.visits + 1)

\* std::pow(right->evaluate(), left->evaluate())
PowerEvaluateSwapped(node, table, ord) ==
    LET o == Operands(node, table, ord.call, ord)
    IN  IF o.thrown THEN Thrown(o.cerr, o.table, o.visits + 1)
        ELSE Returned(Pow(o.r, o.l), o.cerr, o.table, o.visits + 1)

PowerEvaluate(node, table, ord) ==
    LET o == Operands(node, table, ord.call, ord)
    IN  IF o.thrown THEN Thrown(o.cerr, o.table, o.visits + 1)
        ELSE Returned(Pow(o.l, o.r), o.cerr, o.table, o.visits + 1)

\* a call through a null child pointer, which the language leaves undefined:
\* ord.null is what the build makes of it, a crash or some value returned
NullOutcomes ==
    {[crash |-> TRUE, val |-> NaN]}
    \cup {[crash |-> FALSE, val |-> v] : v \in {FromInt(0), NaN}}

NullEvaluate(table, ord) ==
    IF ord.null.crash THEN Thrown(<<>>, table, 1)
    ELSE Returned(ord.null.val, <<>>, table, 1)

\* the virtual call node->evaluate()
evaluate(node, table, ord) ==
    CASE node.kind = "Constant" -> ConstantEvaluate(node, table)
      [] node.kind = "Identifier" -> IdentifierEvaluate(node, table)
      [] node.kind = "UnaryPlus" -> UnaryPlusEvaluate(node, table, ord)
      [] node.kind = "UnaryMinus" -> UnaryMinusEvaluate(node, table, ord)
      [] node.kind = "Add" -> AddEvaluate(node, table, ord)
      [] node.kind = "Subtract" -> SubtractEvaluate(node, table, ord)
      [] node.kind = "Multiply" -> MultiplyEvaluate(node, table, ord)
      [] node.kind = "Divide" -> DivideEvaluate(node, table, ord)
      [] node.kind = "Power" -> PowerEvaluate(node, table, ord)
      [] node.kind = "none" -> NullEvaluate(table, ord)

(***************************************************************************)
(* The child accessors of Unary and Binary.  get* returns a reference to   *)
(* the child and changes nothing; release* moves the child's unique_ptr    *)
(* out of the node, which leaves the node's pointer null.                  *)
(***************************************************************************)
releaseInput(node) == [node EXCEPT !.operand = NoTree]
releaseLeft(node) == [node EXCEPT !.left = NoTree]
releaseRight(node) == [node EXCEPT !.right = NoTree]

\* every node of the tree holds the children its class has
RECURSIVE Intact(_)
Intact(node) ==
    CASE node.kind \in UnaryKinds -> Intact(node.operand)
      [] node.kind \in BinaryKinds -> Intact(node.left) /\ Intact(node.right)
      [] node.kind = "none" -> FALSE
      [] OTHER -> TRUE

(***************************************************************************)
(* getType(): each concrete class overrides it; Binary::getType is the     *)
(* body a binary class without an override would inherit.                  *)
(***************************************************************************)
BinaryGetType(node) == "Binary"

\* Add without its override
getTypeInherited(node) ==
    IF node.kind = "Add" THEN BinaryGetType(node) ELSE node.kind

getType(node) ==
    CASE node.kind = "Constant" -> "Constant"
      [] node.kind = "Identifier" -> "Identifier"
      [] node.kind = "UnaryPlus" -> "UnaryPlus"
      [] node.kind = "UnaryMinus" -> "UnaryMinus"
      [] node.kind = "Add" -> "Add"
      [] node.kind = "Subtract" -> "Subtract"
      [] node.kind = "Multiply" -> "Multiply"
      [] node.kind = "Divide" -> "Divide"
      [] node.kind = "Power" -> "Power"

(***************************************************************************)
(* The expression main.cxx's runTest builds, and the bindings it sets.     *)
(***************************************************************************)
runTestExpression ==
    Binary("Divide",
           Binary("Multiply", Constant(FromInt(2)),
                  Binary("Add", Identifier("a"), Identifier("b"))),
           Binary("Power",
                  Binary("Subtract", Identifier("c"), Constant(FromInt(1))),
                  Binary("Add", Identifier("d"), Constant(FromInt(1)))))

runTestTable(table) ==
    setVariable(setVariable(setVariable(setVariable(table,
        "a", FromInt(3)), "b", FromInt(1)), "c", FromInt(5)), "d", FromInt(2))

(***************************************************************************)
(* State.                                                                  *)
(*   variableTable  Identifier::variableTable                              *)
(*   recording      whether history is kept in this behaviour              *)
(*   history        the setVariable calls made since the last              *)
(*                  clearVariables, oldest first                           *)
(*   tree           the expression the caller holds, or NoTree             *)
(*   pc             what the caller did last; "terminated" once an         *)
(*                  exception has left evaluate(), "aborted" once          *)
(*                  runTest's assert has failed                            *)
(*   calls          evaluate() calls made on tree in a row                 *)
(*   result         what the last of them returned; prevResult the one     *)
(*                  before it                                              *)
(*   cerr           the lines the last evaluate() wrote to std::cerr       *)
(*   visits         the evaluate() calls it made, nested ones included     *)
(*   typeTag        what the last call, a getType(), returned              *)
(***************************************************************************)
VARIABLES variableTable, recording, history, tree, pc, calls, result,
          prevResult, cerr, visits, typeTag

vars == <<variableTable, recording, history, tree, pc, calls, result,
          prevResult, cerr, visits, typeTag>>

NoResult == [k |-> "none", s |-> 1, n |-> 0, d |-> 0]
NoTag == "none"

\* no exception has left a call and no assert has failed
Running == pc \notin {"terminated", "aborted"}

Forget ==
    /\ calls' = 0
    /\ result' = NoResult
    /\ prevResult' = NoResult
    /\ cerr' = <<>>
    /\ visits' = 0
    /\ typeTag' = NoTag

Init ==
    /\ variableTable = EmptyTable
    /\ recording = FALSE
    /\ history = <<>>
    /\ tree = NoTree
    /\ pc = "idle"
    /\ calls = 0
    /\ result = NoResult
    /\ prevResult = NoResult
    /\ cerr = <<>>
    /\ visits = 0
    /\ typeTag = NoTag

\* Identifier::setVariable(id, value)
SetVariable(id, value) ==
    /\ Running
    /\ recording => Len(history) < MaxHistory
    /\ variableTable' = setVariable(variableTable, id, value)
    /\ history' = IF recording
                  THEN Append(history, [id |-> id, value |-> value])
                  ELSE history
    /\ pc' = IF tree = NoTree THEN "idle" ELSE "constructed"
    /\ Forget
    /\ UNCHANGED <<recording, tree>>

\* Identifier::clearVariables()
ClearVariables ==
    /\ Running
    /\ variableTable' = clearVariables(variableTable)
    /\ history' = <<>>
    /\ pc' = IF tree = NoTree THEN "idle" ELSE "constructed"
    /\ Forget
    /\ UNCHANGED <<recording, tree>>

\* the caller builds one of the expressions out of make_unique calls
Construct(expressions) ==
    /\ Running
    /\ tree = NoTree
    /\ \E t \in expressions : tree' = t
    /\ pc' = "constructed"
    /\ Forget
    /\ UNCHANGED <<variableTable, recording, history>>

\* the owning unique_ptr goes out of scope
Destroy ==
    /\ Running
    /\ tree # NoTree
    /\ tree' = NoTree
    /\ pc' = "idle"
    /\ Forget
    /\ UNCHANGED <<variableTable, recording, history>>

\* tree->evaluate()
Evaluate ==
    /\ Running
    /\ tree # NoTree
    /\ calls < MaxCalls
    /\ \E ord \in Orders,
          ub \in IF Intact(tree) THEN {CHOOSE o \in NullOutcomes : o.crash}
                 ELSE NullOutcomes :
         LET r == evaluate(tree, variableTable,
                           [operator |-> ord.operator, call |-> ord.call,
                            null |-> ub])
         IN  /\ ~IsIrr(r.val)
             /\ variableTable' = r.table
             /\ pc' = IF r.thrown THEN "terminated" ELSE "evaluated"
             /\ calls' = calls + 1
             /\ prevResult' = result
             /\ result' = IF r.thrown THEN NoResult ELSE r.val
             /\ cerr' = r.cerr
             /\ visits' = r.visits
    /\ typeTag' = NoTag
    /\ UNCHANGED <<recording, history, tree>>

\* tree->getType()
GetType ==
    /\ Running
    /\ tree # NoTree
    /\ pc' = "typed"
    /\ calls' = 0
    /\ result' = NoResult
    /\ prevResult' = NoResult
    /\ cerr' = <<>>
    /\ visits' = 0
    /\ typeTag' = getType(tree)
    /\ UNCHANGED <<variableTable, recording, history, tree>>

\* the caller takes a reference to a child of the node it holds
GetInput ==
    /\ Running
    /\ tree.kind \in UnaryKinds
    /\ pc' = "getInput"
    /\ Forget
    /\ UNCHANGED <<variableTable, recording, history, tree>>

GetLeft ==
    /\ Running
    /\ tree.kind \in BinaryKinds
    /\ pc' = "getLeft"
    /\ Forget
    /\ UNCHANGED <<variableTable, recording, history, tree>>

GetRight ==
    /\ Running
    /\ tree.kind \in BinaryKinds
    /\ pc' = "getRight"
    /\ Forget
    /\ UNCHANGED <<variableTable, recording, history, tree>>

\* the caller moves a child out of the node it holds and drops it
ReleaseInput ==
    /\ Running
    /\ tree.kind \in UnaryKinds
    /\ tree' = releaseInput(tree)
    /\ pc' = "released"
    /\ Forget
    /\ UNCHANGED <<variableTable, recording, history>>

ReleaseLeft ==
    /\ Running
    /\ tree.kind \in BinaryKinds
    /\ tree' = releaseLeft(tree)
    /\ pc' = "released"
    /\ Forget
    /\ UNCHANGED <<variableTable, recording, history>>

ReleaseRight ==
    /\ Running
    /\ tree.kind \in BinaryKinds
    /\ tree' = releaseRight(tree)
    /\ pc' = "released"
    /\ Forget
    /\ UNCHANGED <<variableTable, recording, history>>

\* runTest() of main.cxx: four setVariable calls, the expression built and
\* evaluated, the assert, clearVariables; the expression dies with the scope
RunTest ==
    /\ Running
    /\ tree = NoTree
    /\ \E ord \in Orders :
         LET r == evaluate(runTestExpression, runTestTable(variableTable), ord)
         IN  /\ pc' = IF r.thrown THEN "terminated"
                      ELSE IF DoubleEq(r.val, Fin(1, 1, 8)) THEN "tested"
                      ELSE "aborted"
             /\ result' = IF r.thrown THEN NoResult ELSE r.val
             /\ cerr' = r.cerr
             /\ visits' = r.visits
             /\ variableTable' = clearVariables(r.table)
    /\ history' = <<>>
    /\ calls' = 0
    /\ prevResult' = NoResult
    /\ typeTag' = NoTag
    /\ UNCHANGED <<recording, tree>>

Next ==
    \/ \E id \in VarNames, c \in Numbers : SetVariable(id, FromInt(c))
    \/ ClearVariables
    \/ Construct(Trees)
    \/ Destroy
    \/ Evaluate
    \/ GetType
    \/ RunTest

Spec == Init /\ [][Next]_vars

\* The variable table on its own: every setVariable is recorded, and the
\* table is read through Identifier probes.
InitEnv ==
    /\ variableTable = EmptyTable
    /\ recording = TRUE
    /\ history = <<>>
    /\ tree = NoTree
    /\ pc = "idle"
    /\ calls = 0
    /\ result = NoResult
    /\ prevResult = NoResult
    /\ cerr = <<>>
    /\ visits = 0
    /\ typeTag = NoTag

NextEnv ==
    \/ \E id \in EnvNames, c \in Numbers : SetVariable(id, FromInt(c))
    \/ ClearVariables
    \/ Construct(Probes)
    \/ Destroy
    \/ Evaluate

SpecEnv == InitEnv /\ [][NextEnv]_vars

\* The node operations on one expression, child accessors included.
NextNode ==
    \/ \E id \in VarNames, c \in Numbers : SetVariable(id, FromInt(c))
    \/ ClearVariables
    \/ Construct(Trees)
    \/ Destroy
    \/ Evaluate
    \/ GetType
    \/ GetInput
    \/ GetLeft
    \/ GetRight
    \/ ReleaseInput
    \/ ReleaseLeft
    \/ ReleaseRight

SpecNode == Init /\ [][NextNode]_vars

TypeOK ==
    /\ DOMAIN variableTable \subseteq EnvNames
    /\ Len(history) <= MaxHistory
    /\ tree = NoTree \/ tree \in Trees \cup Probes
    /\ pc \in {"idle", "constructed", "evaluated", "typed", "tested"}
    /\ calls \in 0..MaxCalls

(***************************************************************************)
(* Properties.                                                             *)
(***************************************************************************)
\* an order to evaluate a subtree's value under: the value does not depend on it
SomeOrder == [operator |-> "LR", call |-> "LR"]

\* evaluate() has been called on tree and nothing else has happened since
Evaluated == pc \in {"evaluated", "terminated"} /\ tree # NoTree

\* the name an Identifier probe, or an Add(Identifier, Constant) probe, reads
ProbeName == IF tree.kind = "Identifier" THEN tree.identifier ELSE tree.left.identifier

\* the index in history of the last setVariable(id, _), 0 when there is none
MostRecent(id) ==
    IF \E i \in 1..Len(history) : history[i].id = id
    THEN CHOOSE i \in 1..Len(history) :
             /\ history[i].id = id
             /\ \A j \in (i + 1)..Len(history) : history[j].id # id
    ELSE 0

\* C1: evaluating an Identifier whose name has no binding does not abort: it
\* returns 0.0 and writes one undefined-variable line naming the variable,
\* and an enclosing Add(Identifier(y), Constant(c)) goes on to return c.
C1_UnboundIdentifierYieldsZero ==
    (recording /\ Evaluated /\ MostRecent(ProbeName) = 0) =>
        /\ pc = "evaluated"
        /\ cerr = <<UndefinedVariable(ProbeName)>>
        /\ tree.kind = "Identifier" => result = FromInt(0)
        /\ tree.kind = "Add" => result = tree.right.value

C1_Witness ==
    /\ recording
    /\ pc = "evaluated"
    /\ tree = Binary("Add", Identifier("y"), Constant(FromInt(2)))
    /\ history = <<[id |-> "x", value |-> FromInt(2)]>>
    /\ result = FromInt(2)
    /\ cerr = <<UndefinedVariable("y")>>

\* node is a Divide or holds one
RECURSIVE HasDivide(_)
HasDivide(node) ==
    \/ node.kind = "Divide"
    \/ node.kind \in UnaryKinds /\ HasDivide(node.operand)
    \/ node.kind \in BinaryKinds /\ (HasDivide(node.left) \/ HasDivide(node.right))

\* C2: Divide(a, b) returns eval(a) / eval(b) when eval(b) is not 0; when it
\* is 0 the node returns +infinity and writes a division-by-zero line; and a
\* tree holding a Divide still returns a value.
C2_DivideQuotientOrInfinity ==
    (Evaluated /\ HasDivide(tree)) =>
        /\ pc = "evaluated"
        /\ IsDouble(result)
        /\ tree.kind = "Divide" =>
             LET a == evaluate(tree.left, variableTable, SomeOrder).val
                 b == evaluate(tree.right, variableTable, SomeOrder).val
             IN  IF DoubleEq(b, FromInt(0))
                 THEN /\ result = INFINITY
                      /\ cerr # <<>>
                      /\ cerr[Len(cerr)] = DivisionByZero
                 ELSE result = Over(a, b)

C2_Witness ==
    /\ pc = "evaluated"
    /\ tree = Unary("UnaryMinus",
                    Binary("Divide", Constant(FromInt(2)), Identifier("x")))
    /\ variableTable = setVariable(EmptyTable, "x", FromInt(0))
    /\ result = Inf(-1)
    /\ cerr = <<DivisionByZero>>

\* C3: evaluating Identifier(n) returns the value of the most recent
\* setVariable(n, v) made since the last clearVariables, and 0.0 with an
\* undefined-variable line when there is none.
C3_IdentifierReadsMostRecentSet ==
    (recording /\ Evaluated /\ tree.kind = "Identifier") =>
        /\ pc = "evaluated"
        /\ IF MostRecent(tree.identifier) = 0
           THEN /\ result = FromInt(0)
                /\ cerr = <<UndefinedVariable(tree.identifier)>>
           ELSE /\ result = history[MostRecent(tree.identifier)].value
                /\ cerr = <<>>

C3_Witness ==
    /\ recording
    /\ pc = "evaluated"
    /\ tree = Identifier("x")
    /\ history = <<[id |-> "x", value |-> FromInt(0)],
                   [id |-> "x", value |-> FromInt(2)]>>
    /\ result = FromInt(2)

\* The reference evaluator over the integers, for trees without Divide.
ToInt(a) == a.s * a.n

RECURSIVE RefEval(_, _)
RefEval(node, table) ==
    CASE node.kind = "Constant" -> ToInt(node.value)
      [] node.kind = "Identifier" -> ToInt(table[node.identifier])
      [] node.kind = "UnaryPlus" -> RefEval(node.operand, table)
      [] node.kind = "UnaryMinus" -> 0 - RefEval(node.operand, table)
      [] node.kind = "Add" -> RefEval(node.left, table) + RefEval(node.right, table)
      [] node.kind = "Subtract" -> RefEval(node.left, table) - RefEval(node.right, table)
      [] node.kind = "Multiply" -> RefEval(node.left, table) * RefEval(node.right, table)
      [] node.kind = "Power" -> IntPow(RefEval(node.left, table), RefEval(node.right, table))

\* no Divide, integer constants, every Identifier bound to an integer, and
\* every exponent non-negative
RECURSIVE InFragment(_, _)
InFragment(node, table) ==
    CASE node.kind = "Constant" -> IsInteger(node.value)
      [] node.kind = "Identifier" ->
           node.identifier \in DOMAIN table /\ IsInteger(table[node.identifier])
      [] node.kind \in UnaryKinds -> InFragment(node.operand, table)
      [] node.kind \in {"Add", "Subtract", "Multiply"} ->
           InFragment(node.left, table) /\ InFragment(node.right, table)
      [] node.kind = "Power" ->
           /\ InFragment(node.left, table)
           /\ InFragment(node.right, table)
           /\ RefEval(node.right, table) >= 0
      [] OTHER -> FALSE

\* C4: on trees of Constant, bound Identifier, UnaryPlus, UnaryMinus, Add,
\* Subtract, Multiply and Power with non-negative exponents, evaluate()
\* returns what the reference evaluator computes over the integers; and
\* runTest's expression, with a=3, b=1, c=5, d=2, evaluates to 8/64.
C4_EvaluateMatchesReference ==
    /\ (Evaluated /\ InFragment(tree, variableTable)) =>
           /\ pc = "evaluated"
           /\ DoubleEq(result, FromInt(RefEval(tree, variableTable)))
    /\ pc \in {"tested", "aborted", "terminated"} /\ tree = NoTree =>
           /\ pc = "tested"
           /\ result = Fin(1, 8, 64)

C4_Witness ==
    /\ pc = "evaluated"
    /\ tree = Binary("Subtract", Constant(FromInt(2)),
                     Binary("Power", Identifier("x"), Constant(FromInt(2))))
    /\ variableTable = setVariable(EmptyTable, "x", FromInt(2))
    /\ result = FromInt(-2)

\* how often line d occurs in the sequence of lines err
RECURSIVE Count(_, _)
Count(d, err) ==
    IF err = <<>> THEN 0
    ELSE (IF Head(err) = d THEN 1 ELSE 0) + Count(d, Tail(err))

Lines == {DivisionByZero} \cup {UndefinedVariable(id) : id \in EnvNames}

\* C5: when a Divide's right operand evaluates to 0, the left operand is
\* evaluated all the same, so the call writes the lines of the left subtree
\* as well as those of the right subtree and the division-by-zero line.
C5_ZeroDivisorKeepsLeftDiagnostics ==
    (pc = "evaluated" /\ tree.kind = "Divide") =>
        LET l == evaluate(tree.left, variableTable, SomeOrder)
            r == evaluate(tree.right, variableTable, SomeOrder)
        IN  DoubleEq(r.val, FromInt(0)) =>
                \A d \in Lines :
                    Count(d, cerr) >= Count(d, l.cerr) + Count(d, r.cerr)
                                      + (IF d = DivisionByZero THEN 1 ELSE 0)

\* C6: one evaluate() of an Add, Subtract or Multiply node evaluates the
\* left child and then the right child: the lines written are those of the
\* left subtree followed by those of the right subtree.
C6_LeftThenRightDiagnostics ==
    (pc = "evaluated" /\ tree.kind \in {"Add", "Subtract", "Multiply"}) =>
        \E lo \in Orders, ro \in Orders :
            cerr = evaluate(tree.left, variableTable, lo).cerr
                   \o evaluate(tree.right, variableTable, ro).cerr

\* C7: a second evaluate() in a row on the same tree, with no setVariable or
\* clearVariables in between, returns what the first returned.
C7_EvaluateTwiceSameResult ==
    (Evaluated /\ calls >= 2) => (pc = "evaluated" /\ result = prevResult)

C7_Witness ==
    /\ pc = "evaluated"
    /\ calls = 2
    /\ tree = Binary("Multiply", Identifier("x"),
                     Binary("Divide", Constant(FromInt(2)), Identifier("x")))
    /\ variableTable = EmptyTable
    /\ result = NaN
    /\ prevResult = NaN

\* C8: evaluate() leaves the variable table as it found it; a lookup of an
\* unbound name creates no binding.
C8_EvaluateKeepsTable ==
    [][calls' = calls + 1 => variableTable' = variableTable]_vars

C8_Witness ==
    /\ pc = "evaluated"
    /\ calls = 1
    /\ tree = Binary("Add", Identifier("x"), Constant(FromInt(2)))
    /\ cerr = <<UndefinedVariable("x")>>
    /\ variableTable = EmptyTable

RECURSIVE TwoToThe(_)
TwoToThe(n) == IF n = 0 THEN 1 ELSE 2 * TwoToThe(n - 1)

\* C9: evaluate() on a finite tree returns a double after finitely many
\* nested calls (fewer than 2^nodes); neither an undefined variable nor a
\* zero divisor lets an exception leave it.
C9_EvaluateReturnsNumber ==
    Evaluated =>
        /\ pc = "evaluated"
        /\ IsDouble(result)
        /\ visits >= 1
        /\ visits < TwoToThe(NodeCount(tree))

C9_Witness ==
    /\ pc = "evaluated"
    /\ tree = Binary("Divide", Identifier("x"),
                     Binary("Divide", Constant(FromInt(2)), Identifier("x")))
    /\ variableTable = EmptyTable
    /\ result = FromInt(0)
    /\ visits = 6

ConcreteTags ==
    {"Constant", "Identifier", "UnaryPlus", "UnaryMinus", "Add", "Subtract",
     "Multiply", "Divide", "Power"}

\* C10: getType() returns the tag of the node's own class, one of the nine
\* concrete tags, and never the generic tags Unary and Binary.
C10_GetTypeIsConcreteTag ==
    pc = "typed" =>
        /\ typeTag = tree.kind
        /\ typeTag \in ConcreteTags
        /\ typeTag \notin {"Unary", "Binary"}

C10_Witness ==
    /\ pc = "typed"
    /\ tree.kind = "Add"
    /\ typeTag = "Add"

\* C11: one evaluate() of a Divide whose right operand is not 0 evaluates
\* each operand once: every line is written as often as one evaluation of
\* the left subtree and one of the right subtree write it.
C11_DivideEvaluatesOperandsOnce ==
    (pc = "evaluated" /\ tree.kind = "Divide") =>
        LET l == evaluate(tree.left, variableTable, SomeOrder)
            r == evaluate(tree.right, variableTable, SomeOrder)
        IN  ~DoubleEq(r.val, FromInt(0)) =>
                \A d \in Lines :
                    Count(d, cerr) = Count(d, l.cerr) + Count(d, r.cerr)

\* C12: the tree is not mutated after construction: whatever node
\* operations are called, every unary node keeps its child and every binary
\* node keeps both, so no evaluate() goes through a missing child.
C12_TreeKeepsChildren ==
    /\ tree # NoTree => Intact(tree)
    /\ pc # "terminated"

=============================================================================
